---------------------------- MODULE Spec2Model ----------------------------
(* A model of lite/examples/object_detection/raspberry_pi/detect_picamera.py: *)
(* argument validation and MQTT client set-up, the label file loader, the   *)
(* detection filter and the capture / detect / reduce / publish loop.       *)
(*                                                                          *)
(* Python's None is the empty sequence None; a present value v is <<v>>.    *)
(* Scores, thresholds and box coordinates are integers in tenths.           *)
EXTENDS Integers, Sequences, FiniteSets, TLC

VARIABLES
    pc,               \* position of main()
    mode,             \* args.mode
    useWebsocket,     \* args.useWebsocket
    certificatePath,  \* args.certificatePath
    privateKeyPath,   \* args.privateKeyPath
    argPort,          \* args.port
    port,             \* local port of main()
    exitStatus,       \* None while running, <<n>> once the process has exited
    raised,           \* the exception leaving main(), "none" if there is none
    mqttConfigured,   \* configureEndpoint .. configureMQTTOperationTimeout were called
    endpointPort,     \* the port handed to configureEndpoint
    offlineQueueSize, \* the argument of configureOfflinePublishQueueing
    connected,        \* myMQTTClient.connect() has returned
    cameraOpen,       \* picamera.PiCamera(...) has been entered
    previewStopped,   \* camera.stop_preview() has been called
    labels,           \* the label table, a function id -> name
    lines,            \* load_labels: f.readlines()
    row_number,       \* load_labels: number of lines consumed
    boxes,            \* model output tensor 0
    classes,          \* model output tensor 1
    scores,           \* model output tensor 2
    count,            \* model output tensor 3
    threshold,        \* args.threshold
    results,          \* detect_objects(...) of the current frame
    point,            \* findPoints(coordinates)
    label,            \* findLabels(results, labels)
    score,            \* findScore(results, labels)
    post,             \* the message dictionary of the current frame
    messageJSON,      \* json.dumps(post)
    frames,           \* frames yielded by camera.capture_continuous
    published,        \* number of myMQTTClient.publish calls made
    sleeps,           \* completed time.sleep(1) calls
    steps             \* the steps taken so far for the current frame

argVars == <<mode, useWebsocket, certificatePath, privateKeyPath, argPort>>
mqttVars == <<mqttConfigured, endpointPort, offlineQueueSize, connected>>
loaderVars == <<lines, row_number>>
tensorVars == <<boxes, classes, scores, count>>
frameVars == <<results, point, label, score, post, messageJSON>>
loopVars == <<frames, published, sleeps, steps>>
vars == <<pc, argVars, port, exitStatus, raised, mqttVars, cameraOpen,
          previewStopped, labels, loaderVars, tensorVars, threshold,
          frameVars, loopVars>>

None == <<>>
Some(v) == <<v>>

\* Python truthiness of an optional string / an optional int.
TruthyStr(o) == o # None /\ o[1] # ""
TruthyInt(o) == o # None /\ o[1] # 0

-----------------------------------------------------------------------------
(* Bounds of the model.                                                     *)
NumSlots == 2      \* entries of each model output tensor
MaxFrames == 2     \* frames the camera yields before the stream may end
MaxLines == 2      \* lines of a label file
MaxLineLen == 3    \* characters of a label file line

(* Program constants.                                                       *)
UsageExit == 2         \* argparse's parser.error exits with status 2
WebsocketPort == 443
CertificatePort == 8883
InfiniteQueue == -1
DefaultThreshold == 4  \* --threshold default 0.4, in tenths

AllowedActions == {"publish"}

-----------------------------------------------------------------------------
(* Argument validation, main() lines 199-215.                               *)

UnknownMode(m) == m \notin AllowedActions

MutexError_AnyCredential(ws, cert, key) ==
    ws /\ (TruthyStr(cert) \/ TruthyStr(key))

MutexError(ws, cert, key) == ws /\ TruthyStr(cert) /\ TruthyStr(key)

MissingCredentials_Both(ws, cert, key) ==
    ~ws /\ (~TruthyStr(cert) /\ ~TruthyStr(key))

MissingCredentials(ws, cert, key) ==
    ~ws /\ (~TruthyStr(cert) \/ ~TruthyStr(key))

PortDefaults(ws, p) ==
    LET p1 == IF ws /\ ~TruthyInt(p) THEN Some(WebsocketPort) ELSE p
    IN  IF ~ws /\ ~TruthyInt(p) THEN Some(CertificatePort) ELSE p1


-----------------------------------------------------------------------------
(* load_labels, lines 53-64. A string is a sequence of one-character        *)
(* strings.                                                                 *)

Digits == {"0", "1", "2", "3", "4", "5", "6", "7", "8", "9"}
Alphabet == {"0", "1", "a", " ", ":"}

IsSpace(c) == c \in {" ", "\t", "\n", "\r"}
IsSep(c) == c = ":" \/ IsSpace(c)

RECURSIVE lstrip(_)
lstrip(s) == IF s # <<>> /\ IsSpace(Head(s)) THEN lstrip(Tail(s)) ELSE s

RECURSIVE rstrip(_)
rstrip(s) ==
    IF s # <<>> /\ IsSpace(s[Len(s)]) THEN rstrip(SubSeq(s, 1, Len(s) - 1))
    ELSE s

strip(s) == rstrip(lstrip(s))

\* Position of the first separator character of s, 0 if there is none.
FirstSep(s) ==
    IF \E i \in 1..Len(s) : IsSep(s[i])
    THEN CHOOSE i \in 1..Len(s) :
             IsSep(s[i]) /\ \A j \in 1..(i - 1) : ~IsSep(s[j])
    ELSE 0

\* Last position of the run of separators that starts at i.
RunEnd(s, i) ==
    CHOOSE j \in i..Len(s) :
        /\ \A k \in i..j : IsSep(s[k])
        /\ (j = Len(s) \/ ~IsSep(s[j + 1]))

\* re.split(r'[:\s]+', s, maxsplit=1)
re_split(s) ==
    LET i == FirstSep(s)
    IN  IF i = 0 THEN <<s>>
        ELSE <<SubSeq(s, 1, i - 1), SubSeq(s, RunEnd(s, i) + 1, Len(s))>>

isdigit(s) == s # <<>> /\ \A i \in 1..Len(s) : s[i] \in Digits

DigitValue(c) ==
    CASE c = "0" -> 0 [] c = "1" -> 1 [] c = "2" -> 2 [] c = "3" -> 3
      [] c = "4" -> 4 [] c = "5" -> 5 [] c = "6" -> 6 [] c = "7" -> 7
      [] c = "8" -> 8 [] c = "9" -> 9

RECURSIVE int(_)
int(s) ==
    IF s = <<>> THEN 0
    ELSE 10 * int(SubSeq(s, 1, Len(s) - 1)) + DigitValue(s[Len(s)])

\* labels[key] = value
SetItem(tbl, key, value) ==
    [k \in (DOMAIN tbl) \cup {key} |-> IF k = key THEN value ELSE tbl[k]]

\* One iteration of the for loop of load_labels.
LoadLine(tbl, row, content) ==
    LET pair == re_split(strip(content))
    IN  IF Len(pair) = 2 /\ isdigit(strip(pair[1]))
        THEN SetItem(tbl, int(pair[1]), strip(pair[2]))
        ELSE SetItem(tbl, row, strip(pair[1]))

RECURSIVE LoadFrom(_, _, _)
LoadFrom(tbl, row, file) ==
    IF row >= Len(file) THEN tbl
    ELSE LoadFrom(LoadLine(tbl, row, file[row + 1]), row + 1, file)

load_labels(file) == LoadFrom(<<>>, 0, file)

-----------------------------------------------------------------------------
(* The model output and detect_objects, lines 80-100.                       *)

\* A box is <<ymin, xmin, ymax, xmax>>.
Boxes == {<<1, 2, 4, 8>>, <<1, 3, 5, 6>>, <<0, 0, 0, 0>>}
ClassIds == {0, 1, 2}
Scores == {3, 4}
Thresholds == {3, 4, 5}

\* The label file of the pipeline runs: "0 a" and "1 b".
LabelFile == <<<<"0", " ", "a">>, <<"1", " ", "b">>>>

Tensor(S) == [1..NumSlots -> S]

ScoreTest_Strict(s, t) == s > t

\* scores[i] >= threshold
ScoreTest(s, t) == s >= t

\* The loop of detect_objects from index i (0-based) on.
RECURSIVE DetectFrom(_, _, _, _, _, _, _)
DetectFrom(b, c, s, n, t, i, acc) ==
    IF i >= n THEN acc
    ELSE DetectFrom(b, c, s, n, t, i + 1,
             IF ScoreTest(s[i + 1], t)
             THEN Append(acc, [bounding_box |-> b[i + 1],
                               class_id |-> c[i + 1],
                               score |-> s[i + 1]])
             ELSE acc)

detect_objects(b, c, s, n, t) == DetectFrom(b, c, s, n, t, 0, <<>>)

-----------------------------------------------------------------------------
(* annotate_objects and the reduction helpers, lines 103-152.               *)

RECURSIVE GCD(_, _)
GCD(a, b) == IF b = 0 THEN a ELSE GCD(b, a % b)

\* a / b for b # 0, as the fraction in lowest terms <<numerator, denominator>>.
Divide(a, b) == LET g == GCD(a, b) IN <<a \div g, b \div g>>

\* annotate_objects raises KeyError when a result's class is not in the table.
AnnotateRaises(res, tbl) ==
    \E k \in 1..Len(res) : res[k].class_id \notin DOMAIN tbl

\* findPoints returns from the first pass of its loop; xmin / xmax and
\* ymin / ymax raise ZeroDivisionError on a zero divisor.
FindPointsRaises(coordinates) ==
    coordinates # <<>> /\ (coordinates[1][4] = 0 \/ coordinates[1][3] = 0)

findPoints(coordinates) ==
    IF coordinates = <<>> THEN None
    ELSE LET coordinate == coordinates[1]
             ymin == coordinate[1]
             xmin == coordinate[2]
             ymax == coordinate[3]
             xmax == coordinate[4]
         IN  Some(<<Divide(xmin, xmax), Divide(ymin, ymax)>>)

FindLabelsRaises(res, tbl) == res # <<>> /\ res[1].class_id \notin DOMAIN tbl

findLabels(res, tbl) ==
    IF res = <<>> THEN None ELSE Some(tbl[res[1].class_id])

findScore(res, tbl) == IF res = <<>> THEN None ELSE Some(res[1].score)

\* str(label): the name itself, "None" for None.
StrLabel(l) == IF l = None THEN <<"N", "o", "n", "e">> ELSE l[1]

\* str(score): the text of the number, "None" for None.
StrScore(v) == IF v = None THEN "None" ELSE ToString(v[1])

\* The dictionary of lines 264-269.
MakePost(pt, lb, sc) ==
    [SensorName |-> "CameraPi", Score |-> StrScore(sc),
     Coordinates |-> pt, ClassID |-> StrLabel(lb)]

\* json.dumps(post): the key/value pairs in insertion order.
json_dumps(p) ==
    <<<<"Sensor Name", p.SensorName>>, <<"Score", p.Score>>,
      <<"Coordinates", p.Coordinates>>, <<"Class_ID", p.ClassID>>>>

-----------------------------------------------------------------------------
(* Initial states.                                                          *)

Modes == {"publish", "subscribe"}
PathArgs == {None, Some(""), Some("file.pem")}
PortArgs == {None, Some(0), Some(1883)}

NoTensor == [i \in 1..NumSlots |-> 0]

\* What every run starts from, whatever its arguments.
InitRest ==
    /\ port = None
    /\ exitStatus = None
    /\ raised = "none"
    /\ mqttConfigured = FALSE
    /\ endpointPort = None
    /\ offlineQueueSize = None
    /\ connected = FALSE
    /\ cameraOpen = FALSE
    /\ previewStopped = FALSE
    /\ labels = <<>>
    /\ row_number = 0
    /\ boxes = NoTensor /\ classes = NoTensor /\ scores = NoTensor
    /\ count = 0
    /\ results = <<>>
    /\ point = None /\ label = None /\ score = None
    /\ post = None /\ messageJSON = None
    /\ frames = 0 /\ published = 0 /\ sleeps = 0
    /\ steps = <<>>

\* main() is entered with the command line of a certificate-mode run.
Init ==
    /\ pc = "parse_args"
    /\ mode = "publish"
    /\ useWebsocket = FALSE
    /\ certificatePath = Some("file.pem")
    /\ privateKeyPath = Some("file.pem")
    /\ argPort = None
    /\ threshold = DefaultThreshold
    /\ lines = LabelFile
    /\ InitRest

\* main() is entered with any command line.
InitArgs ==
    /\ pc = "parse_args"
    /\ mode \in Modes
    /\ useWebsocket \in BOOLEAN
    /\ certificatePath \in PathArgs
    /\ privateKeyPath \in PathArgs
    /\ argPort \in PortArgs
    /\ threshold = DefaultThreshold
    /\ lines = LabelFile
    /\ InitRest

-----------------------------------------------------------------------------
(* main() up to the capture loop, lines 182-234.                            *)

\* Lines 182-197: parse the arguments, load the labels and the model.
ParseArgs ==
    /\ pc = "parse_args"
    /\ labels' = load_labels(lines)
    /\ row_number' = Len(lines)
    /\ port' = argPort
    /\ pc' = "validate"
    /\ UNCHANGED <<argVars, exitStatus, raised, mqttVars, cameraOpen,
                   previewStopped, lines, tensorVars, threshold, frameVars,
                   loopVars>>

\* parser.error(...): argparse prints the usage and exits with status 2.
ParserError ==
    /\ pc' = "exit"
    /\ exitStatus' = Some(UsageExit)
    /\ UNCHANGED <<argVars, port, raised, mqttVars, cameraOpen,
                   previewStopped, labels, loaderVars, tensorVars, threshold,
                   frameVars, loopVars>>

\* Lines 199-201.
RejectMode ==
    /\ pc = "validate"
    /\ UnknownMode(mode)
    /\ ParserError

\* Lines 203-205.
RejectMutex ==
    /\ pc = "validate"
    /\ ~UnknownMode(mode)
    /\ MutexError(useWebsocket, certificatePath, privateKeyPath)
    /\ ParserError

\* Lines 207-209.
RejectMissing ==
    /\ pc = "validate"
    /\ ~UnknownMode(mode)
    /\ ~MutexError(useWebsocket, certificatePath, privateKeyPath)
    /\ MissingCredentials(useWebsocket, certificatePath, privateKeyPath)
    /\ ParserError

\* Lines 199-215 when no check fails: the port defaults.
AcceptArgs ==
    /\ pc = "validate"
    /\ ~UnknownMode(mode)
    /\ ~MutexError(useWebsocket, certificatePath, privateKeyPath)
    /\ ~MissingCredentials(useWebsocket, certificatePath, privateKeyPath)
    /\ port' = PortDefaults(useWebsocket, argPort)
    /\ pc' = "configure"
    /\ UNCHANGED <<argVars, exitStatus, raised, mqttVars, cameraOpen,
                   previewStopped, labels, loaderVars, tensorVars, threshold,
                   frameVars, loopVars>>

\* Lines 219-226.
ConfigureClient ==
    /\ pc = "configure"
    /\ mqttConfigured' = TRUE
    /\ endpointPort' = port
    /\ offlineQueueSize' = Some(InfiniteQueue)
    /\ pc' = "connect"
    /\ UNCHANGED <<argVars, port, exitStatus, raised, connected, cameraOpen,
                   previewStopped, labels, loaderVars, tensorVars, threshold,
                   frameVars, loopVars>>

\* Line 227.
Connect ==
    /\ pc = "connect"
    /\ connected' = TRUE
    /\ pc' = "open_camera"
    /\ UNCHANGED <<argVars, port, exitStatus, raised, mqttConfigured,
                   endpointPort, offlineQueueSize, cameraOpen, previewStopped,
                   labels, loaderVars, tensorVars, threshold, frameVars,
                   loopVars>>

\* Lines 229-234.
OpenCamera ==
    /\ pc = "open_camera"
    /\ cameraOpen' = TRUE
    /\ pc' = "capture"
    /\ UNCHANGED <<argVars, port, exitStatus, raised, mqttVars,
                   previewStopped, labels, loaderVars, tensorVars, threshold,
                   frameVars, loopVars>>

NextArgs ==
    \/ ParseArgs
    \/ RejectMode
    \/ RejectMutex
    \/ RejectMissing
    \/ AcceptArgs
    \/ ConfigureClient
    \/ Connect
    \/ OpenCamera

SpecArgs == InitArgs /\ [][NextArgs]_vars

-----------------------------------------------------------------------------
(* The capture loop, lines 235-279.                                         *)

LoopPcs == {"capture", "detect", "annotate", "reduce", "encode", "publish",
            "pace"}

\* Where control goes when the loop body is left by an exception, by the
\* end of the stream or by an interrupt: the finally clause of line 278.
LoopExit_NoFinally == "close_camera"

LoopExit == "finally"

\* After myMQTTClient.publish comes time.sleep(1), line 276.
AfterPublish_NoSleep == "capture"

AfterPublish == "pace"

\* The loop body is left by exception e.
Raise(e) ==
    /\ raised' = e
    /\ pc' = LoopExit

\* Lines 235-240: the camera yields a frame. The locals and the output
\* tensors of the previous iteration are dead here (each is written again
\* before it is read), and the model clears them.
Capture ==
    /\ pc = "capture"
    /\ frames < MaxFrames
    /\ frames' = frames + 1
    /\ steps' = <<>>
    /\ boxes' = NoTensor /\ classes' = NoTensor /\ scores' = NoTensor
    /\ count' = 0
    /\ results' = <<>>
    /\ point' = None /\ label' = None /\ score' = None
    /\ post' = None /\ messageJSON' = None
    /\ pc' = "detect"
    /\ UNCHANGED <<argVars, port, exitStatus, raised, mqttVars, cameraOpen,
                   previewStopped, labels, loaderVars, threshold, published,
                   sleeps>>

\* Lines 241-243: the interpreter fills its output tensors, detect_objects
\* filters them.
Detect ==
    /\ pc = "detect"
    /\ \E b \in Tensor(Boxes), c \in Tensor(ClassIds), s \in Tensor(Scores),
          n \in 0..NumSlots :
          /\ boxes' = b /\ classes' = c /\ scores' = s /\ count' = n
          /\ results' = detect_objects(b, c, s, n, threshold)
    /\ steps' = Append(steps, "detect")
    /\ pc' = "annotate"
    /\ UNCHANGED <<argVars, port, exitStatus, raised, mqttVars, cameraOpen,
                   previewStopped, labels, loaderVars, threshold, point,
                   label, score, post, messageJSON, frames, published,
                   sleeps>>

\* Lines 245-251.
Annotate ==
    /\ pc = "annotate"
    /\ ~AnnotateRaises(results, labels)
    /\ steps' = Append(steps, "annotate")
    /\ pc' = "reduce"
    /\ UNCHANGED <<argVars, port, exitStatus, raised, mqttVars, cameraOpen,
                   previewStopped, labels, loaderVars, tensorVars, threshold,
                   frameVars, frames, published, sleeps>>

\* Line 117: labels[obj['class_id']] raises KeyError.
AnnotateKeyError ==
    /\ pc = "annotate"
    /\ AnnotateRaises(results, labels)
    /\ Raise("KeyError")
    /\ UNCHANGED <<argVars, port, exitStatus, mqttVars, cameraOpen,
                   previewStopped, labels, loaderVars, tensorVars, threshold,
                   frameVars, loopVars>>

\* Lines 255-261: coordinates = boxes.tolist(), then the three helpers.
Reduce ==
    /\ pc = "reduce"
    /\ ~FindPointsRaises(boxes)
    /\ ~FindLabelsRaises(results, labels)
    /\ point' = findPoints(boxes)
    /\ label' = findLabels(results, labels)
    /\ score' = findScore(results, labels)
    /\ steps' = Append(steps, "reduce")
    /\ pc' = "encode"
    /\ UNCHANGED <<argVars, port, exitStatus, raised, mqttVars, cameraOpen,
                   previewStopped, labels, loaderVars, tensorVars, threshold,
                   results, post, messageJSON, frames, published, sleeps>>

\* Lines 128-129: xmin / xmax or ymin / ymax raises ZeroDivisionError.
ReduceZeroDivision ==
    /\ pc = "reduce"
    /\ FindPointsRaises(boxes)
    /\ Raise("ZeroDivisionError")
    /\ UNCHANGED <<argVars, port, exitStatus, mqttVars, cameraOpen,
                   previewStopped, labels, loaderVars, tensorVars, threshold,
                   frameVars, loopVars>>

\* Lines 264-273.
Encode ==
    /\ pc = "encode"
    /\ post' = Some(MakePost(point, label, score))
    /\ messageJSON' = Some(json_dumps(MakePost(point, label, score)))
    /\ steps' = Append(steps, "encode")
    /\ pc' = "publish"
    /\ UNCHANGED <<argVars, port, exitStatus, raised, mqttVars, cameraOpen,
                   previewStopped, labels, loaderVars, tensorVars, threshold,
                   results, point, label, score, frames, published, sleeps>>

\* Line 274.
Publish ==
    /\ pc = "publish"
    /\ published' = published + 1
    /\ steps' = Append(steps, "publish")
    /\ pc' = AfterPublish
    /\ UNCHANGED <<argVars, port, exitStatus, raised, mqttVars, cameraOpen,
                   previewStopped, labels, loaderVars, tensorVars, threshold,
                   frameVars, frames, sleeps>>

\* Line 276.
Pace ==
    /\ pc = "pace"
    /\ sleeps' = sleeps + 1
    /\ steps' = Append(steps, "pace")
    /\ pc' = "capture"
    /\ UNCHANGED <<argVars, port, exitStatus, raised, mqttVars, cameraOpen,
                   previewStopped, labels, loaderVars, tensorVars, threshold,
                   frameVars, frames, published>>

\* camera.capture_continuous stops yielding frames.
StreamEnd ==
    /\ pc = "capture"
    /\ pc' = LoopExit
    /\ UNCHANGED <<argVars, port, exitStatus, raised, mqttVars, cameraOpen,
                   previewStopped, labels, loaderVars, tensorVars, threshold,
                   frameVars, loopVars>>

\* KeyboardInterrupt is raised inside the try block.
Interrupt ==
    /\ pc \in LoopPcs
    /\ Raise("KeyboardInterrupt")
    /\ UNCHANGED <<argVars, port, exitStatus, mqttVars, cameraOpen,
                   previewStopped, labels, loaderVars, tensorVars, threshold,
                   frameVars, loopVars>>

\* Lines 278-279.
StopPreview ==
    /\ pc = "finally"
    /\ previewStopped' = TRUE
    /\ pc' = "close_camera"
    /\ UNCHANGED <<argVars, port, exitStatus, raised, mqttVars, cameraOpen,
                   labels, loaderVars, tensorVars, threshold, frameVars,
                   loopVars>>

\* The with block of line 229 closes the camera and main() ends: status 0
\* on a return, 1 on an uncaught exception.
CloseCamera ==
    /\ pc = "close_camera"
    /\ cameraOpen' = FALSE
    /\ exitStatus' = IF raised = "none" THEN Some(0) ELSE Some(1)
    /\ pc' = "exit"
    /\ UNCHANGED <<argVars, port, raised, mqttVars, previewStopped, labels,
                   loaderVars, tensorVars, threshold, frameVars, loopVars>>

Next ==
    \/ ParseArgs
    \/ AcceptArgs
    \/ ConfigureClient
    \/ Connect
    \/ OpenCamera
    \/ Capture
    \/ Detect
    \/ Annotate
    \/ AnnotateKeyError
    \/ Reduce
    \/ ReduceZeroDivision
    \/ Encode
    \/ Publish
    \/ Pace
    \/ StreamEnd
    \/ Interrupt
    \/ StopPreview
    \/ CloseCamera

Spec == Init /\ [][Next]_vars

-----------------------------------------------------------------------------
(* load_labels run on its own, over every label file within the bounds.     *)

Strings(n) == UNION {[1..m -> Alphabet] : m \in 0..n}
LabelFiles == UNION {[1..m -> Strings(MaxLineLen)] : m \in 0..MaxLines}

ArgsOfInit ==
    /\ mode = "publish"
    /\ useWebsocket = FALSE
    /\ certificatePath = Some("file.pem")
    /\ privateKeyPath = Some("file.pem")
    /\ argPort = None

InitLabels ==
    /\ pc = "load_labels"
    /\ lines \in LabelFiles
    /\ threshold = DefaultThreshold
    /\ ArgsOfInit
    /\ InitRest

\* Lines 58-63: one pass of the loop over enumerate(lines).
ReadLine ==
    /\ pc = "load_labels"
    /\ row_number < Len(lines)
    /\ labels' = LoadLine(labels, row_number, lines[row_number + 1])
    /\ row_number' = row_number + 1
    /\ UNCHANGED <<pc, argVars, port, exitStatus, raised, mqttVars,
                   cameraOpen, previewStopped, lines, tensorVars, threshold,
                   frameVars, loopVars>>

\* Line 64.
ReturnLabels ==
    /\ pc = "load_labels"
    /\ row_number = Len(lines)
    /\ pc' = "loaded"
    /\ UNCHANGED <<argVars, port, exitStatus, raised, mqttVars, cameraOpen,
                   previewStopped, labels, loaderVars, tensorVars, threshold,
                   frameVars, loopVars>>

NextLabels == ReadLine \/ ReturnLabels

SpecLabels == InitLabels /\ [][NextLabels]_vars

-----------------------------------------------------------------------------
(* detect_objects run on its own, over every model output and threshold     *)
(* within the bounds.                                                       *)

InitDetect ==
    /\ pc = "detect_objects"
    /\ lines = LabelFile
    /\ ArgsOfInit
    /\ port = None
    /\ exitStatus = None
    /\ raised = "none"
    /\ mqttConfigured = FALSE
    /\ endpointPort = None
    /\ offlineQueueSize = None
    /\ connected = FALSE
    /\ cameraOpen = FALSE
    /\ previewStopped = FALSE
    /\ labels = <<>>
    /\ row_number = 0
    /\ boxes \in Tensor(Boxes)
    /\ classes \in Tensor(ClassIds)
    /\ scores \in Tensor(Scores)
    /\ count \in 0..NumSlots
    /\ threshold \in Thresholds
    /\ results = <<>>
    /\ point = None /\ label = None /\ score = None
    /\ post = None /\ messageJSON = None
    /\ frames = 0 /\ published = 0 /\ sleeps = 0
    /\ steps = <<>>

\* Lines 86-100 on the output tensors of one inference.
DetectObjects ==
    /\ pc = "detect_objects"
    /\ results' = detect_objects(boxes, classes, scores, count, threshold)
    /\ pc' = "detected"
    /\ UNCHANGED <<argVars, port, exitStatus, raised, mqttVars, cameraOpen,
                   previewStopped, labels, loaderVars, tensorVars, threshold,
                   point, label, score, post, messageJSON, loopVars>>

NextDetect == DetectObjects

SpecDetect == InitDetect /\ [][NextDetect]_vars

-----------------------------------------------------------------------------
(* Properties.                                                              *)

\* The point of one box: <<xmin / xmax, ymin / ymax>>.
PointOfBox(box) == Some(<<Divide(box[2], box[4]), Divide(box[1], box[3])>>)

\* C1: when the filtered detection sequence of a frame is not empty, the
\* point, the label and the score of the published message all come from
\* its first element (checked where that element's box has non-zero
\* divisors, so that its point is defined).
C1_SameDetection ==
    (pc = "pace" /\ results # <<>>
        /\ results[1].bounding_box[3] # 0 /\ results[1].bounding_box[4] # 0)
    => post = Some(MakePost(PointOfBox(results[1].bounding_box),
                            Some(labels[results[1].class_id]),
                            Some(results[1].score)))

\* C2: when no detection clears the threshold, none of point, label and
\* score of that iteration is derived from a model output entry.
C2_AbsentWhenEmpty ==
    (pc \in {"encode", "publish", "pace"} /\ results = <<>>)
    => (point = None /\ label = None /\ score = None)

\* The claims' reading of the command line: a path is given when it is a
\* non-empty string.
HasCert == TruthyStr(certificatePath)
HasKey == TruthyStr(privateKeyPath)
Validated == pc \notin {"parse_args", "validate"}
Rejected == pc = "exit" /\ exitStatus = Some(2)

\* C3 as stated: with a valid mode, websocket with certificate and key, and
\* certificate mode with a missing certificate or key, are rejected with
\* status 2; every accepted configuration is websocket with no certificate
\* credentials, or certificate mode with both certificate and key.
C3_Original ==
    (Validated /\ mode = "publish") =>
        /\ ((useWebsocket /\ HasCert /\ HasKey)
               \/ (~useWebsocket /\ (~HasCert \/ ~HasKey))) => Rejected
        /\ ~Rejected =>
               \/ (useWebsocket /\ ~HasCert /\ ~HasKey)
               \/ (~useWebsocket /\ HasCert /\ HasKey)

\* C3 as amended: with a valid mode, a configuration is rejected with status
\* 2 exactly when websocket comes with both certificate and key, or
\* certificate mode lacks the certificate or the key; every accepted
\* configuration is websocket without the complete certificate/key pair, or
\* certificate mode with both.
C3_AuthValidation ==
    (Validated /\ mode = "publish") =>
        /\ Rejected <=>
               \/ (useWebsocket /\ HasCert /\ HasKey)
               \/ (~useWebsocket /\ (~HasCert \/ ~HasKey))
        /\ ~Rejected =>
               /\ pc # "exit"
               /\ \/ (useWebsocket /\ ~(HasCert /\ HasKey))
                  \/ (~useWebsocket /\ HasCert /\ HasKey)

\* A websocket run with certificate and key has been rejected.
C3_Witness ==
    /\ Rejected
    /\ mode = "publish"
    /\ useWebsocket /\ HasCert /\ HasKey

C5_PortPolicy ==
    mqttConfigured =>
        endpointPort = IF argPort # None THEN argPort
                       ELSE IF useWebsocket THEN Some(443) ELSE Some(8883)

\* The indices below count that clear the threshold, and the k-th of them.
C6_Kept == {i \in 0..(count - 1) : scores[i + 1] >= threshold}
C6_Nth(k) == CHOOSE i \in C6_Kept : Cardinality({j \in C6_Kept : j < i}) = k - 1

\* C6: detect_objects returns exactly the entries with index below count
\* and score >= threshold, each with the box, class and score of its own
\* index, in increasing index order; the empty sequence when there is none.
C6_DetectFilter ==
    pc = "detected" =>
        /\ Len(results) = Cardinality(C6_Kept)
        /\ \A k \in 1..Len(results) :
               results[k] = [bounding_box |-> boxes[C6_Nth(k) + 1],
                             class_id |-> classes[C6_Nth(k) + 1],
                             score |-> scores[C6_Nth(k) + 1]]

\* Entry 0 was filtered out and entry 1 kept.
C6_Witness ==
    /\ pc = "detected"
    /\ count = 2
    /\ scores[1] < threshold /\ scores[2] >= threshold
    /\ Len(results) = 1
    /\ boxes[1] # boxes[2]

\* The table C7 describes: the first field is what precedes the first run
\* of colons and whitespace of the trimmed line, and it is an index when a
\* remainder follows it.
C7_Line(tbl, row, content) ==
    LET whole == strip(content)
        pair == re_split(whole)
    IN  IF Len(pair) = 2 /\ isdigit(pair[1])
        THEN SetItem(tbl, int(pair[1]), strip(pair[2]))
        ELSE SetItem(tbl, row, whole)

RECURSIVE C7_From(_, _, _)
C7_From(tbl, row, file) ==
    IF row >= Len(file) THEN tbl
    ELSE C7_From(C7_Line(tbl, row, file[row + 1]), row + 1, file)

\* C7: a line whose first field is a pure non-negative integer maps that
\* integer to the remainder, any other line maps its 0-based line number to
\* the whole trimmed line, and the last line of an id wins.
C7_LabelParsing ==
    pc = "loaded" => labels = C7_From(<<>>, 0, lines)

FrameOrder == <<"detect", "annotate", "reduce", "encode", "publish", "pace">>

\* C9: the steps of a frame are taken in the order detect, annotate,
\* reduce, encode, publish, pace; every frame that completes has made
\* exactly one publish call; a publish call is made only once connected;
\* and a completed 1-second sleep lies between two consecutive publish
\* calls.
C9_FrameOrder ==
    /\ Len(steps) <= Len(FrameOrder)
    /\ steps = SubSeq(FrameOrder, 1, Len(steps))
    /\ pc = "publish" => steps = SubSeq(FrameOrder, 1, 4)
    /\ published > 0 => connected
    /\ published = IF frames = 0 THEN 0
                   ELSE frames - 1 + (IF Len(steps) >= 5 THEN 1 ELSE 0)
    /\ sleeps = IF frames = 0 THEN 0
                ELSE frames - 1 + (IF Len(steps) = 6 THEN 1 ELSE 0)
    /\ pc = "publish" => sleeps = published

\* The second frame has been published, one sleep after the first.
C9_Witness ==
    /\ pc = "pace"
    /\ frames = 2 /\ published = 2 /\ sleeps = 1
    /\ steps = SubSeq(FrameOrder, 1, 5)

Terminal == {"finally", "close_camera", "exit"}

C10_State ==
    /\ raised \in {"KeyError", "ZeroDivisionError"} =>
           (pc \in Terminal /\ published = frames - 1)
    /\ raised # "none" => pc \in Terminal
    /\ pc = "exit" => previewStopped

C10_Step ==
    pc \in Terminal =>
        /\ pc' \in Terminal
        /\ frames' = frames
        /\ published' = published
        /\ raised' = raised

\* C10: once a per-frame step has raised, the frame's message is not
\* published, no further frame is captured or published and control has
\* left the loop; and whenever the process ends after the loop was left,
\* by an exception, an interrupt or the end of the stream, stop_preview
\* has been called.
C10_FailStop == []C10_State /\ [][C10_Step]_vars

\* The second frame raised in the reduction, after the first was published,
\* and the process has ended.
C10_Witness ==
    /\ pc = "exit"
    /\ raised = "ZeroDivisionError"
    /\ frames = 2 /\ published = 1
    /\ previewStopped

=============================================================================
